---- MODULE Spec2Model ----
(***************************************************************************)
(* Model of src/app.py: the Streamlit chat front-end over a SQL agent.     *)
(*                                                                         *)
(* Every user interaction makes Streamlit execute the script once from top *)
(* to bottom; st.session_state survives between executions.  One action of *)
(* the model is one such execution, triggered by one widget (a button      *)
(* click or a chat_input submission) that the previous execution rendered. *)
(*                                                                         *)
(* A text is a sequence of tokens, each a piece of the string; a text that *)
(* is searched is cut into words, and Python's substring test `a in b` is  *)
(* contiguous-subsequence search on the words.  A text that is only passed *)
(* on is one token.                                                        *)
(* A Python value that may be None is a record [tag, val].                 *)
(***************************************************************************)
EXTENDS Integers, Sequences, FiniteSets, TLC

VARIABLES db, agent, connected, messages, widgets, errors, run, call, prev

session == <<db, agent, connected, messages>>
vars == <<db, agent, connected, messages, widgets, errors, run, call, prev>>

----------------------------------------------------------------------------
(* Bounds *)

\* script executions that submit a question, per history
MaxAsks == 2
\* fragments concatenated into one exception message
MaxParts == 2

----------------------------------------------------------------------------
(* Python values *)

None == [tag |-> "None", val |-> <<>>]
Str(s) == [tag |-> "str", val |-> s]

\* Python truthiness of an Optional[str]: None and "" are both falsy
Truthy(v) == v.tag = "str" /\ v.val # <<>>

\* objects held in session_state.db / session_state.agent
NoObject == "None"
SQLDatabase == "SQLDatabase"
AgentExecutor == "AgentExecutor"

\* `sub in s` on strings
Contains(sub, s) ==
    \E i \in 0..(Len(s) - Len(sub)) : SubSeq(s, i + 1, i + Len(sub)) = sub

----------------------------------------------------------------------------
(* Literal texts of the program *)

ParseSig == <<"Could", "not", "parse", "LLM", "output">>
IterSig == <<"Agent", "stopped", "due", "to", "iteration", "limit">>
TimeSig == <<"Agent", "stopped", "due", "to", "time", "limit">>

ParseReply ==
    << "Sorry, I encountered a parsing error. Please try rephrasing your question or ask something simpler." >>
IterReply ==
    << "The query is taking longer than expected. Please try asking a simpler question or be more specific." >>
TimeReply ==
    << "The query timed out. Please try asking a simpler question or be more specific." >>
GenericReply ==
    << "Sorry, I encountered an error while processing your request." >>

DbFailedPrefix == << "Database connection failed: " >>
AgentFailedPrefix == << "Agent initialization failed: " >>
QueryErrorPrefix == << "Error: " >>
TableInfoErrorPrefix == << "Error getting table info: " >>

----------------------------------------------------------------------------
(* Inputs from the outside world *)

\* texts the user types into the chat input (a non-empty submission)
Prompts == { << "How many users are there?" >>, << "List all tables" >> }

\* answers agent.run returns
Answers == { << "There are 42 users." >>, <<>> }

\* pieces of exception text; a message is a concatenation of pieces (the last
\* one is the common beginning of two signatures and no signature itself)
Fragments == { ParseSig, IterSig, TimeSig,
               <<"Agent", "stopped", "due", "to">> }

RECURSIVE MessagesOf(_)
MessagesOf(n) ==
    IF n = 0 THEN { <<>> }
    ELSE LET shorter == MessagesOf(n - 1)
         IN  shorter \cup { m \o f : m \in shorter, f \in Fragments }

\* str(e) of the exceptions agent.run raises
ErrorMessages == MessagesOf(MaxParts)

\* str(e) of the exceptions SQLDatabase.from_uri raises
DbErrorTexts == { <<>>, << "connection refused" >> }
\* str(e) of the exceptions raised while building the agent
AgentErrorTexts == { <<>>, << "api_key must be set" >> }

\* str(e) of calling .run on None
NoneTypeMessage == << "'NoneType' object has no attribute 'run'" >>
TableInfoMessage == << "connection closed" >>

\* result of a call that either returns a value or raises Exception(text)
Returned(v) == [raised |-> FALSE, val |-> v]
Raised(text) == [raised |-> TRUE, val |-> text]

----------------------------------------------------------------------------
(* Functions of app.py *)

\* setup_database(): res is what SQLDatabase.from_uri did
setup_database(res) ==
    IF res.raised THEN <<NoObject, Str(res.val)>>
                  ELSE <<SQLDatabase, None>>

\* setup_agent(db): res is what ChatGroq / SQLDatabaseToolkit /
\* initialize_agent did; nothing in the function looks at db itself
setup_agent(dbv, res) ==
    IF res.raised THEN <<NoObject, Str(res.val)>>
                  ELSE <<AgentExecutor, None>>

\* what SQLDatabase.from_uri can do
DatabaseOpen == { Returned(<<>>) } \cup { Raised(t) : t \in DbErrorTexts }

\* what the body of setup_agent can do: SQLDatabaseToolkit rejects db=None,
\* so without a database object the body always raises
AgentBuild(dbv) ==
    IF dbv = NoObject
    THEN { Raised(t) : t \in AgentErrorTexts }
    ELSE { Returned(<<>>) } \cup { Raised(t) : t \in AgentErrorTexts }

\* what agent.run(query) can do for the object stored as the agent
AgentRun(agentObj) ==
    IF agentObj = NoObject
    THEN { Raised(NoneTypeMessage) }
    ELSE { Returned(a) : a \in Answers } \cup { Raised(m) : m \in ErrorMessages }

\* query_database with the iteration-limit test moved in front of the
\* parse-failure test
query_databaseIterFirst(res) ==
    IF ~res.raised THEN <<Str(res.val), None>>
    ELSE LET error_msg == res.val
         IN  IF Contains(IterSig, error_msg) THEN <<Str(IterReply), None>>
             ELSE IF Contains(ParseSig, error_msg) THEN <<Str(ParseReply), None>>
             ELSE IF Contains(TimeSig, error_msg) THEN <<Str(TimeReply), None>>
             ELSE <<None, Str(error_msg)>>

\* query_database with the time-limit test moved in front of the
\* iteration-limit test
query_databaseTimeFirst(res) ==
    IF ~res.raised THEN <<Str(res.val), None>>
    ELSE LET error_msg == res.val
         IN  IF Contains(ParseSig, error_msg) THEN <<Str(ParseReply), None>>
             ELSE IF Contains(TimeSig, error_msg) THEN <<Str(TimeReply), None>>
             ELSE IF Contains(IterSig, error_msg) THEN <<Str(IterReply), None>>
             ELSE <<None, Str(error_msg)>>

\* query_database that answers every other failure with the generic reply
\* instead of handing the message back
query_databaseSwallow(res) ==
    IF ~res.raised THEN <<Str(res.val), None>>
    ELSE LET error_msg == res.val
         IN  IF Contains(ParseSig, error_msg) THEN <<Str(ParseReply), None>>
             ELSE IF Contains(IterSig, error_msg) THEN <<Str(IterReply), None>>
             ELSE IF Contains(TimeSig, error_msg) THEN <<Str(TimeReply), None>>
             ELSE <<Str(GenericReply), None>>

\* query_database(agent, query): res is what agent.run(query) did;
\* the result is the pair (response, error)
query_database(res) ==
    IF ~res.raised THEN <<Str(res.val), None>>
    ELSE LET error_msg == res.val
         IN  IF Contains(ParseSig, error_msg) THEN <<Str(ParseReply), None>>
             ELSE IF Contains(IterSig, error_msg) THEN <<Str(IterReply), None>>
             ELSE IF Contains(TimeSig, error_msg) THEN <<Str(TimeReply), None>>
             ELSE <<None, Str(error_msg)>>

\* connect_to_database(): new db/agent/connected, what st.error showed and
\* the return value
connect_to_database(dbRes, agentRes) ==
    LET d == setup_database(dbRes)
        a == setup_agent(d[1], agentRes)
    IN  IF Truthy(d[2])
        THEN [db |-> db, agent |-> agent, connected |-> connected,
              errors |-> << DbFailedPrefix \o d[2].val >>,
              agentStage |-> "none", ret |-> FALSE]
        ELSE IF Truthy(a[2])
        THEN [db |-> db, agent |-> agent, connected |-> connected,
              errors |-> << AgentFailedPrefix \o a[2].val >>,
              agentStage |-> "raised", ret |-> FALSE]
        ELSE [db |-> d[1], agent |-> a[1], connected |-> TRUE,
              errors |-> <<>>,
              agentStage |-> IF agentRes.raised THEN "raised" ELSE "ok",
              ret |-> TRUE]

\* sidebar, "Database Info": what st.error shows when get_table_info raises
DatabaseInfo(conn, dbv, infoRaises) ==
    IF conn /\ dbv # NoObject /\ infoRaises
    THEN << TableInfoErrorPrefix \o TableInfoMessage >>
    ELSE <<>>

\* the chat interface without its test of connected
ChatInterfaceAlways(conn) == TRUE

\* `if st.session_state.connected:` in front of the chat interface
ChatInterface(conn) == conn

\* the widgets one execution of the script renders; atSidebar and atChat are
\* the values of connected when the sidebar and the chat interface test it
Widgets(atSidebar, atChat) ==
    (IF ~atSidebar THEN {"connect"} ELSE {"disconnect"})
      \cup (IF ChatInterface(atChat) THEN {"chat_input", "clear"} ELSE {})

\* the chat input handler for a submitted prompt: the two appends around the
\* call of query_database (ChatInputNoReplyOnError leaves the handler after
\* st.error, before the second append)
ChatInputNoReplyOnError(msgs, prompt, res) ==
    LET withUser == Append(msgs, [role |-> "user", content |-> Str(prompt)])
        r == query_database(res)
        error == r[2]
    IN  [messages |-> IF Truthy(error) THEN withUser
                      ELSE Append(withUser, [role |-> "assistant", content |-> r[1]]),
         errors |-> IF Truthy(error) THEN << QueryErrorPrefix \o error.val >> ELSE <<>>,
         response |-> r[1], error |-> error]

ChatInput(msgs, prompt, res) ==
    LET withUser == Append(msgs, [role |-> "user", content |-> Str(prompt)])
        r == query_database(res)
        error == r[2]
        response == IF Truthy(error) THEN Str(GenericReply) ELSE r[1]
    IN  [messages |-> Append(withUser, [role |-> "assistant", content |-> response]),
         errors |-> IF Truthy(error) THEN << QueryErrorPrefix \o error.val >> ELSE <<>>,
         response |-> r[1], error |-> error]

----------------------------------------------------------------------------
(* State *)

NoCall == [invoked |-> FALSE, connected |-> FALSE, agent |-> NoObject,
           query |-> <<>>, res |-> Returned(<<>>), response |-> None,
           error |-> None]

Snapshot == [db |-> db, agent |-> agent, connected |-> connected,
             messages |-> messages]

NoStage == [op |-> "rerun", dbStage |-> "none", agentStage |-> "none"]

Init ==
    /\ db = NoObject
    /\ agent = NoObject
    /\ messages = <<>>
    /\ connected = FALSE
    /\ widgets = Widgets(FALSE, FALSE)
    /\ errors = <<>>
    /\ run = [NoStage EXCEPT !.op = "init"]
    /\ call = NoCall
    /\ prev = [db |-> NoObject, agent |-> NoObject, connected |-> FALSE,
               messages |-> <<>>]

----------------------------------------------------------------------------
(* One action per execution of the script *)

\* click on "Connect to Database"
Connect ==
    /\ "connect" \in widgets
    /\ ~connected
    /\ \E dbRes \in DatabaseOpen, infoRaises \in BOOLEAN :
       \E agentRes \in AgentBuild(setup_database(dbRes)[1]) :
         LET c == connect_to_database(dbRes, agentRes)
         IN  /\ db' = c.db
             /\ agent' = c.agent
             /\ connected' = c.connected
             /\ errors' = c.errors \o DatabaseInfo(c.connected, c.db, infoRaises)
             /\ widgets' = Widgets(connected, c.connected)
             /\ run' = [op |-> "connect",
                        dbStage |-> IF dbRes.raised THEN "raised" ELSE "ok",
                        agentStage |-> c.agentStage]
    /\ messages' = messages
    /\ call' = NoCall
    /\ prev' = Snapshot

\* Disconnect without the assignment to session_state.messages
DisconnectKeepsMessages ==
    /\ "disconnect" \in widgets
    /\ connected
    /\ db' = NoObject
    /\ agent' = NoObject
    /\ connected' = FALSE
    /\ messages' = messages
    /\ widgets' = Widgets(FALSE, FALSE)
    /\ errors' = <<>>
    /\ run' = [NoStage EXCEPT !.op = "disconnect"]
    /\ call' = NoCall
    /\ prev' = Snapshot

\* click on "Disconnect": the four assignments, then st.rerun()
Disconnect ==
    /\ "disconnect" \in widgets
    /\ connected
    /\ db' = NoObject
    /\ agent' = NoObject
    /\ connected' = FALSE
    /\ messages' = <<>>
    /\ widgets' = Widgets(FALSE, FALSE)
    /\ errors' = <<>>
    /\ run' = [NoStage EXCEPT !.op = "disconnect"]
    /\ call' = NoCall
    /\ prev' = Snapshot

\* a question submitted in the chat input
Ask ==
    /\ "chat_input" \in widgets
    /\ ChatInterface(connected)
    /\ Len(messages) < 2 * MaxAsks
    /\ \E prompt \in Prompts, res \in AgentRun(agent), infoRaises \in BOOLEAN :
         LET h == ChatInput(messages, prompt, res)
         IN  /\ messages' = h.messages
             /\ errors' = DatabaseInfo(connected, db, infoRaises) \o h.errors
             /\ call' = [invoked |-> TRUE, connected |-> connected,
                         agent |-> agent, query |-> prompt, res |-> res,
                         response |-> h.response, error |-> h.error]
    /\ widgets' = Widgets(connected, connected)
    /\ run' = [NoStage EXCEPT !.op = "ask"]
    /\ prev' = Snapshot
    /\ UNCHANGED <<db, agent, connected>>

\* Clear Chat History that resets the agent as well
ClearHistoryDropsAgent ==
    /\ "clear" \in widgets
    /\ ChatInterface(connected)
    /\ messages' = <<>>
    /\ agent' = NoObject
    /\ \E infoRaises \in BOOLEAN :
         errors' = DatabaseInfo(connected, db, infoRaises)
    /\ widgets' = Widgets(connected, connected)
    /\ run' = [NoStage EXCEPT !.op = "clear"]
    /\ call' = NoCall
    /\ prev' = Snapshot
    /\ UNCHANGED <<db, connected>>

\* click on "Clear Chat History": the assignment, then st.rerun()
ClearHistory ==
    /\ "clear" \in widgets
    /\ ChatInterface(connected)
    /\ messages' = <<>>
    /\ \E infoRaises \in BOOLEAN :
         errors' = DatabaseInfo(connected, db, infoRaises)
    /\ widgets' = Widgets(connected, connected)
    /\ run' = [NoStage EXCEPT !.op = "clear"]
    /\ call' = NoCall
    /\ prev' = Snapshot
    /\ UNCHANGED <<db, agent, connected>>

\* click on a button the script no longer creates (the Connect button stays
\* on the page after the execution that connected): the script runs, no
\* handler does
Rerun ==
    /\ \/ "connect" \in widgets /\ connected
       \/ "disconnect" \in widgets /\ ~connected
       \/ "clear" \in widgets /\ ~ChatInterface(connected)
       \/ "chat_input" \in widgets /\ ~ChatInterface(connected)
    /\ \E infoRaises \in BOOLEAN :
         errors' = DatabaseInfo(connected, db, infoRaises)
    /\ widgets' = Widgets(connected, connected)
    /\ run' = NoStage
    /\ call' = NoCall
    /\ prev' = Snapshot
    /\ UNCHANGED <<db, agent, connected, messages>>

Next == Connect \/ Disconnect \/ Ask \/ ClearHistory \/ Rerun

Spec == Init /\ [][Next]_vars

----------------------------------------------------------------------------
(* Properties *)

\* the last execution called query_database and agent.run raised
AgentFailed == call.invoked /\ call.res.raised
FailureMessage == call.res.val
Unclassified(m) ==
    ~Contains(ParseSig, m) /\ ~Contains(IterSig, m) /\ ~Contains(TimeSig, m)
LastTurn == messages[Len(messages)]
IsPrefix(s, t) == Len(s) <= Len(t) /\ SubSeq(t, 1, Len(s)) = s
SessionKept ==
    db = prev.db /\ agent = prev.agent /\ connected = prev.connected

\* C1: connected is true if and only if both the stored database handle and
\* the stored agent are non-null, in every reachable state.
C1_ConnectedIffHandleAndAgent ==
    connected <=> (db # NoObject /\ agent # NoObject)

\* C2: after a disconnect the history is empty, connected is false and handle
\* and agent are null; no reachable state has connected false with a
\* non-empty history.
C2_DisconnectClearsAll ==
    /\ run.op = "disconnect" =>
         messages = <<>> /\ ~connected /\ db = NoObject /\ agent = NoObject
    /\ ~connected => messages = <<>>

C2_Witness ==
    run.op = "disconnect" /\ prev.connected /\ Len(prev.messages) >= 2

\* C3: every invocation of query_database happens while connected is true.
C3_AskOnlyWhenConnected == call.invoked => call.connected

C3_Witness == call.invoked /\ call.connected /\ run.op = "ask"

\* C4: clear history empties the turn sequence and leaves connected, the
\* stored handle and the stored agent as they were.
C4_ClearOnlyEmptiesTurns ==
    run.op = "clear" => messages = <<>> /\ SessionKept

C4_Witness ==
    run.op = "clear" /\ Len(prev.messages) >= 2 /\ connected
      /\ agent = AgentExecutor /\ db = SQLDatabase

\* C5: a failure whose message contains the parse-failure signature, whatever
\* else it contains, yields the parse-error reply as the answer and a null
\* error.
C5_ParseFailureReply ==
    (AgentFailed /\ Contains(ParseSig, FailureMessage)) =>
        call.response = Str(ParseReply) /\ call.error = None

C5_Witness ==
    /\ AgentFailed
    /\ Contains(ParseSig, FailureMessage)
    /\ Contains(IterSig, FailureMessage) \/ Contains(TimeSig, FailureMessage)
    /\ call.response = Str(ParseReply)

\* C6 as stated: every message containing the iteration-limit signature
\* yields the iteration-limit reply, and every message containing the
\* time-limit signature yields the time-out reply, each with a null error,
\* also when the message contains another signature.
C6_LimitRepliesAnyMessage ==
    /\ (AgentFailed /\ Contains(IterSig, FailureMessage)) =>
           call.response = Str(IterReply) /\ call.error = None
    /\ (AgentFailed /\ Contains(TimeSig, FailureMessage)) =>
           call.response = Str(TimeReply) /\ call.error = None

\* C6 amended: the iteration-limit reply is returned when the message
\* contains the iteration-limit signature and not the parse-failure one; the
\* time-out reply when it contains the time-limit signature and neither of
\* the other two; the error is null in both cases.
C6_LimitRepliesByPriority ==
    /\ (AgentFailed /\ Contains(IterSig, FailureMessage)
          /\ ~Contains(ParseSig, FailureMessage)) =>
           call.response = Str(IterReply) /\ call.error = None
    /\ (AgentFailed /\ Contains(TimeSig, FailureMessage)
          /\ ~Contains(ParseSig, FailureMessage)
          /\ ~Contains(IterSig, FailureMessage)) =>
           call.response = Str(TimeReply) /\ call.error = None

C6_Witness ==
    /\ AgentFailed
    /\ Contains(IterSig, FailureMessage)
    /\ Contains(TimeSig, FailureMessage)
    /\ ~Contains(ParseSig, FailureMessage)
    /\ call.response = Str(IterReply)

\* C7 as stated: a failure whose message contains none of the signatures
\* yields a null answer and a non-empty error string equal to the message,
\* for every such message, the empty one included.
C7_RawErrorNonEmpty ==
    (AgentFailed /\ Unclassified(FailureMessage)) =>
        /\ call.response = None
        /\ call.error.tag = "str"
        /\ call.error.val # <<>>
        /\ call.error.val = FailureMessage

\* C7 amended: such a failure yields a null answer and an error string equal
\* to the message, which is non-empty exactly when the message is.
C7_RawErrorEqualsMessage ==
    (AgentFailed /\ Unclassified(FailureMessage)) =>
        /\ call.response = None
        /\ call.error = Str(FailureMessage)
        /\ (call.error.val # <<>>) <=> (FailureMessage # <<>>)

C7_Witness ==
    /\ AgentFailed
    /\ Unclassified(FailureMessage)
    /\ FailureMessage # <<>>
    /\ agent = AgentExecutor
    /\ call.error = Str(FailureMessage)

\* C8: for every ask whose agent call fails with an unclassified error the
\* error is shown and the generic fallback reply is appended as the
\* assistant turn, with connected, handle and agent as they were.
C8_BothSignalsFire ==
    (AgentFailed /\ Unclassified(FailureMessage)) =>
        /\ \E i \in 1..Len(errors) : errors[i] = QueryErrorPrefix \o FailureMessage
        /\ LastTurn = [role |-> "assistant", content |-> Str(GenericReply)]
        /\ SessionKept

\* C9: a connect whose database stage or agent stage fails leaves the
\* session as it was: handle and agent null, connected false, history empty.
C9_FailedConnectChangesNothing ==
    (run.op = "connect" /\ (run.dbStage = "raised" \/ run.agentStage = "raised")) =>
        /\ db = NoObject /\ agent = NoObject /\ ~connected /\ messages = <<>>
        /\ SessionKept /\ messages = prev.messages

\* C10: every ask appends {user, question} and then one assistant turn, whose
\* content is the agent's answer when the agent call succeeds; the history
\* has even length, alternates user/assistant starting with user, and
\* outside clear history and disconnect it only grows by appending.
C10_HistoryShape ==
    /\ Len(messages) % 2 = 0
    /\ \A i \in 1..Len(messages) :
         messages[i].role = IF i % 2 = 1 THEN "user" ELSE "assistant"
    /\ run.op \notin {"clear", "disconnect"} => IsPrefix(prev.messages, messages)
    /\ run.op # "ask" => Len(messages) <= Len(prev.messages)
    /\ run.op = "ask" =>
         /\ call.invoked
         /\ Len(messages) = Len(prev.messages) + 2
         /\ messages[Len(messages) - 1] =
              [role |-> "user", content |-> Str(call.query)]
         /\ ~call.res.raised => LastTurn.content = Str(call.res.val)

C10_Witness ==
    /\ run.op = "ask"
    /\ Len(messages) >= 4
    /\ ~call.res.raised
    /\ LastTurn.content = Str(call.res.val)
    /\ messages[2].content = Str(GenericReply)

====
